---- MODULE Spec2Model ----
(***************************************************************************)
(* A state-machine model of the attendance and fee-ledger endpoints of the *)
(* school administration backend (src/app/api/attendance.py,               *)
(* src/app/api/finance.py, src/app/services/gps.py,                        *)
(* src/app/services/payments.py).                                          *)
(*                                                                         *)
(* Tables are sequences: the index of a row is its primary key.            *)
(* An Optional value is a sequence of length 0 (None) or 1.                *)
(* Coordinates lie on one meridian and latitudes are counted in metres of  *)
(* arc, so that the haversine distance of two points is the absolute       *)
(* difference of their latitudes.                                          *)
(***************************************************************************)
EXTENDS Integers, Sequences, FiniteSets, TLC

VARIABLES
    attendance_records,  \* table attendance_records (models/attendance.py)
    student_fees,        \* table student_fees (models/finance.py)
    payments,            \* table payments (models/finance.py)
    gateway,             \* the transactions the payment gateway holds, by reference
    now,                 \* the wall clock of the server, in seconds
    sessions,            \* the requests in flight, each in its own database session
    last,                \* the last completed request and its response
    ops                  \* number of requests served so far

vars == <<attendance_records, student_fees, payments, gateway, now, sessions, last, ops>>

ledger == <<student_fees, payments, gateway, now>>

----------------------------------------------------------------------------
(* Bounds of the model *)

\* number of attendance requests served in one behaviour
MaxAttendanceOps == 2
\* length of the records list of one bulk request
MaxBatch == 2
\* number of fee-ledger requests served in one behaviour
MaxLedgerOps == 3
\* number of gateway requests served in one behaviour
MaxGatewayOps == 3
\* the last second of the server clock
MaxClock == 1
\* number of verify-location requests served in one behaviour
MaxVerifyLocationOps == 1

----------------------------------------------------------------------------
(* Values *)

None == <<>>
Some(x) == <<x>>

Abs(x) == IF x < 0 THEN -x ELSE x

Range(s) == {s[i] : i \in 1..Len(s)}

----------------------------------------------------------------------------
(* Reference data the endpoints read: students, classes, authentic zones *)

\* students.id -> row (models/users.py); student 4 does not exist
Students ==
    (1 :> [school_id |-> 1]) @@ (2 :> [school_id |-> 1]) @@ (3 :> [school_id |-> 2])

\* classes.id -> row (models/schools.py); class 3 does not exist
Classes ==
    (1 :> [school_id |-> 1]) @@ (2 :> [school_id |-> 2])

\* authentic_locations rows in primary-key order (models/schools.py)
AuthenticLocations ==
    << [school_id |-> 1, name |-> "Main gate", latitude |-> 0, longitude |-> 0,
        radius_meters |-> 100, active |-> TRUE],
       [school_id |-> 1, name |-> "Old annex", latitude |-> 500, longitude |-> 0,
        radius_meters |-> 100, active |-> FALSE],
       [school_id |-> 1, name |-> "Sports field", latitude |-> 250, longitude |-> 0,
        radius_meters |-> 50, active |-> TRUE],
       [school_id |-> 2, name |-> "Closed campus", latitude |-> 0, longitude |-> 0,
        radius_meters |-> 100, active |-> FALSE] >>

\* the authenticated users that send requests (current_user.role.name, school_id)
Callers ==
    { [role |-> "super_admin", school_id |-> 0],
      [role |-> "class_teacher", school_id |-> 1],
      [role |-> "parent", school_id |-> 1] }

----------------------------------------------------------------------------
(* services/gps.py *)

\* calculate_distance: haversine on a sphere of radius 6371000 m. On one
\* meridian dlon = 0, so a = sin(dlat/2)^2, c = |dlat| and the result is
\* r * |dlat|: the difference of the latitudes in metres of arc.
calculate_distance(lat1, lon1, lat2, lon2) == Abs(lat2 - lat1)

\* verify_location: returns the distance; the radius argument is not used
verify_location(lat1, lon1, lat2, lon2, radius) ==
    calculate_distance(lat1, lon1, lat2, lon2)

----------------------------------------------------------------------------
(* api/attendance.py: the geofence step shared by single and bulk submit *)

\* select(AuthenticLocation).where(school_id == school, active == True)
ActiveLocationsUnfiltered(school) ==
    SelectSeq(AuthenticLocations, LAMBDA l : l.school_id = school)
ActiveLocations(school) ==
    SelectSeq(AuthenticLocations, LAMBDA l : l.school_id = school /\ l.active = TRUE)

\* one zone admits the candidate: distance <= location.radius_meters
Admits(lat, lon, location) ==
    verify_location(lat, lon, location.latitude, location.longitude,
                    location.radius_meters) <= location.radius_meters

\* the for loop with break: is_valid after scanning locations[i..]
RECURSIVE IsValidFrom(_, _, _, _)
IsValidFrom(locations, i, lat, lon) ==
    IF i > Len(locations) THEN FALSE
    ELSE IF Admits(lat, lon, locations[i]) THEN TRUE
    ELSE IsValidFrom(locations, i + 1, lat, lon)

OutsideReason == "Location is outside of all authentic zones for this school"

\* flagged, flagged_reason as computed before the record is written
GeofenceFlagValidByDefault(school, latitude, longitude) ==
    [flagged |-> FALSE, flagged_reason |-> None]
GeofenceFlag(school, latitude, longitude) ==
    IF latitude # None /\ longitude # None
    THEN LET locations == ActiveLocations(school) IN
         IF Len(locations) > 0
         THEN IF ~IsValidFrom(locations, 1, latitude[1], longitude[1])
              THEN [flagged |-> TRUE, flagged_reason |-> Some(OutsideReason)]
              ELSE [flagged |-> FALSE, flagged_reason |-> None]
         ELSE [flagged |-> FALSE, flagged_reason |-> None]
    ELSE [flagged |-> FALSE, flagged_reason |-> None]

----------------------------------------------------------------------------
(* api/attendance.py: queries on attendance_records *)

\* ids of the rows with the given student_id and date, in primary-key order
RowsFor(recs, student_id, date) ==
    {i \in 1..Len(recs) : recs[i].student_id = student_id /\ recs[i].date = date}

Min(S) == CHOOSE x \in S : \A y \in S : x <= y

\* existing_result.scalars().first() of the (student_id, date) query:
\* the id of the first matching row, or None
ExistingRecordWrongColumn(recs, student_id, date) ==
    LET rows == {i \in 1..Len(recs) : recs[i].class_id = student_id /\ recs[i].date = date}
    IN IF rows = {} THEN None ELSE Some(Min(rows))
ExistingRecord(recs, student_id, date) ==
    LET rows == RowsFor(recs, student_id, date)
    IN IF rows = {} THEN None ELSE Some(Min(rows))

----------------------------------------------------------------------------
(* Responses *)

Response(op, code, detail, req, recs, created, updated) ==
    [op |-> op, code |-> code, detail |-> detail, req |-> req,
     recs |-> recs, created |-> created, updated |-> updated]

Rejected(op, code, detail, req, recs) == Response(op, code, detail, req, recs, {}, {})

----------------------------------------------------------------------------
(* POST /attendance *)

AttendanceRoles == {"super_admin", "admin_staff", "class_teacher", "subject_teacher"}

\* the handler as a function of the table, the caller and the request body:
\* the response, with the table as committed
\* class_.school_id != student.school_id
SchoolMismatchUnchecked(class_, student) == FALSE
SchoolMismatch(class_, student) == class_.school_id # student.school_id

create_attendance_record(recs, current_user, attendance_data) ==
    LET op == "create_attendance_record"
        d == attendance_data
    IN
    IF current_user.role \notin AttendanceRoles
    THEN Rejected(op, 403, "role", d, recs)
    ELSE IF d.student_id \notin DOMAIN Students
    THEN Rejected(op, 404, "Student not found", d, recs)
    ELSE LET student == Students[d.student_id] IN
    IF current_user.role # "super_admin" /\ current_user.school_id # student.school_id
    THEN Rejected(op, 403, "school", d, recs)
    ELSE IF d.class_id \notin DOMAIN Classes
    THEN Rejected(op, 404, "Class not found", d, recs)
    ELSE IF SchoolMismatch(Classes[d.class_id], student)
    THEN Rejected(op, 400, "Class and student must be from the same school", d, recs)
    ELSE IF ExistingRecord(recs, d.student_id, d.date) # None
    THEN Rejected(op, 400, "Attendance record already exists", d, recs)
    ELSE LET g == GeofenceFlag(student.school_id, d.latitude, d.longitude)
             row == [student_id |-> d.student_id, class_id |-> d.class_id,
                     date |-> d.date, status |-> d.status,
                     marked_by_user_id |-> d.marked_by_user_id,
                     latitude |-> d.latitude, longitude |-> d.longitude,
                     flagged |-> g.flagged, flagged_reason |-> g.flagged_reason]
         IN Response(op, 201, "", d, Append(recs, row), {Len(recs) + 1}, {})

----------------------------------------------------------------------------
(* POST /attendance/bulk *)

\* students = {student.id: student for ... where Student.id.in_(student_ids)}
FoundStudents(student_ids) == Range(student_ids) \cap DOMAIN Students

\* the update path of the loop: the fields assigned on existing_record
OverwriteKeepFlag(row, record_data, bulk_data, g) ==
    [row EXCEPT !.status = record_data.status,
                !.marked_by_user_id = bulk_data.marked_by_user_id,
                !.latitude = bulk_data.latitude,
                !.longitude = bulk_data.longitude]
OverwriteNothing(row, record_data, bulk_data, g) == row
OverwriteKeepStatus(row, record_data, bulk_data, g) ==
    [row EXCEPT !.marked_by_user_id = bulk_data.marked_by_user_id,
                !.latitude = bulk_data.latitude,
                !.longitude = bulk_data.longitude,
                !.flagged = g.flagged,
                !.flagged_reason = g.flagged_reason]
Overwrite(row, record_data, bulk_data, g) ==
    [row EXCEPT !.status = record_data.status,
                !.marked_by_user_id = bulk_data.marked_by_user_id,
                !.latitude = bulk_data.latitude,
                !.longitude = bulk_data.longitude,
                !.flagged = g.flagged,
                !.flagged_reason = g.flagged_reason]

\* the loop over bulk_data.records from item i on; acc is the session's view
\* of the table (its own pending rows included) with the ids it created
\* and updated so far
RECURSIVE BulkLoop(_, _, _, _)
BulkLoop(acc, bulk_data, g, i) ==
    IF i > Len(bulk_data.records) THEN acc
    ELSE LET record_data == bulk_data.records[i]
             existing_record == ExistingRecord(acc.recs, record_data.student_id, bulk_data.date)
         IN
         IF existing_record # None
         THEN LET id == existing_record[1] IN
              BulkLoop([recs |-> [acc.recs EXCEPT
                                    ![id] = Overwrite(@, record_data, bulk_data, g)],
                        created |-> acc.created,
                        updated |-> acc.updated \cup {id}],
                       bulk_data, g, i + 1)
         ELSE LET row == [student_id |-> record_data.student_id,
                          class_id |-> bulk_data.class_id,
                          date |-> bulk_data.date, status |-> record_data.status,
                          marked_by_user_id |-> bulk_data.marked_by_user_id,
                          latitude |-> bulk_data.latitude,
                          longitude |-> bulk_data.longitude,
                          flagged |-> g.flagged, flagged_reason |-> g.flagged_reason]
              IN BulkLoop([recs |-> Append(acc.recs, row),
                           created |-> acc.created \cup {Len(acc.recs) + 1},
                           updated |-> acc.updated],
                          bulk_data, g, i + 1)

\* the students of the batch whose school is not the class's school
MismatchedStudentsUnchecked(students, class_) == {}
MismatchedStudents(students, class_) ==
    {s \in students : Students[s].school_id # class_.school_id}

create_bulk_attendance(recs, current_user, bulk_data) ==
    LET op == "create_bulk_attendance"
        d == bulk_data
        student_ids == [i \in 1..Len(d.records) |-> d.records[i].student_id]
        students == FoundStudents(student_ids)
    IN
    IF current_user.role \notin AttendanceRoles
    THEN Rejected(op, 403, "role", d, recs)
    ELSE IF d.class_id \notin DOMAIN Classes
    THEN Rejected(op, 404, "Class not found", d, recs)
    ELSE LET class_ == Classes[d.class_id] IN
    IF current_user.role # "super_admin" /\ current_user.school_id # class_.school_id
    THEN Rejected(op, 403, "school", d, recs)
    ELSE IF Cardinality(students) # Len(student_ids)
    THEN Rejected(op, 404, "Some students not found", d, recs)
    ELSE IF MismatchedStudents(students, class_) # {}
    THEN Rejected(op, 400, "Student belongs to a different school than the class", d, recs)
    ELSE LET g == GeofenceFlag(class_.school_id, d.latitude, d.longitude)
             done == BulkLoop([recs |-> recs, created |-> {}, updated |-> {}], d, g, 1)
         IN Response(op, 201, "", d, done.recs, done.created, done.updated)

----------------------------------------------------------------------------
(* PUT /attendance/{record_id} *)

UpdateRoles == {"super_admin", "admin_staff", "class_teacher"}

\* for key, value in update_data.items(): setattr(record, key, value)
ApplyUpdate(row, update_data) ==
    [f \in DOMAIN row |-> IF f \in DOMAIN update_data THEN update_data[f] ELSE row[f]]

update_attendance_record(recs, current_user, record_id, attendance_data) ==
    LET op == "update_attendance_record"
        d == [record_id |-> record_id, update_data |-> attendance_data]
    IN
    IF current_user.role \notin UpdateRoles
    THEN Rejected(op, 403, "role", d, recs)
    ELSE IF record_id \notin 1..Len(recs)
    THEN Rejected(op, 404, "Attendance record not found", d, recs)
    ELSE LET record == recs[record_id] IN
    IF /\ current_user.role # "super_admin"
       /\ record.student_id \in DOMAIN Students
       /\ Students[record.student_id].school_id # current_user.school_id
    THEN Rejected(op, 403, "school", d, recs)
    ELSE Response(op, 200, "", d,
                  [recs EXCEPT ![record_id] = ApplyUpdate(record, attendance_data)],
                  {}, {record_id})

----------------------------------------------------------------------------
(* Requests *)

StudentIdInputs == DOMAIN Students \cup {4}
ClassIdInputs == DOMAIN Classes \cup {3}
Dates == {1, 2}
StatusInputs == {"Present", "Late"}
MarkerIds == {1}

\* (latitude, longitude) of a request: absent, latitude alone, on the edge of
\* the main gate zone, 400 m beyond the gate
Coordinates ==
    { <<None, None>>, <<Some(500), None>>, <<Some(100), Some(0)>>,
      <<Some(500), Some(0)>> }

SeqsUpTo(S, n) == UNION {[1..k -> S] : k \in 0..n}

\* A request that fails entity validation is rejected before its date, status
\* and coordinates are read: one such request per combination of ids is kept.
Plain(r) == r.date = 1 /\ r.latitude = None /\ r.longitude = None

SingleEntitiesValid(r) ==
    /\ r.student_id \in DOMAIN Students
    /\ r.class_id \in DOMAIN Classes
    /\ Classes[r.class_id].school_id = Students[r.student_id].school_id

AttendanceRecordCreate ==
    { r \in [student_id : StudentIdInputs, class_id : ClassIdInputs, date : Dates,
             status : StatusInputs, marked_by_user_id : MarkerIds,
             latitude : {co[1] : co \in Coordinates},
             longitude : {co[2] : co \in Coordinates}] :
        /\ <<r.latitude, r.longitude>> \in Coordinates
        /\ SingleEntitiesValid(r) \/ (Plain(r) /\ r.status = "Present") }

BulkAttendanceRecord == [student_id : StudentIdInputs, status : StatusInputs]

BulkEntitiesValid(b) ==
    /\ b.class_id \in DOMAIN Classes
    /\ \A i \in 1..Len(b.records) :
         /\ b.records[i].student_id \in DOMAIN Students
         /\ Students[b.records[i].student_id].school_id = Classes[b.class_id].school_id
         /\ \A j \in 1..Len(b.records) :
              b.records[j].student_id = b.records[i].student_id => j = i

BulkAttendanceCreate ==
    { b \in [class_id : ClassIdInputs, date : Dates, marked_by_user_id : MarkerIds,
             latitude : {co[1] : co \in Coordinates},
             longitude : {co[2] : co \in Coordinates},
             records : SeqsUpTo(BulkAttendanceRecord, MaxBatch)] :
        /\ <<b.latitude, b.longitude>> \in Coordinates
        /\ BulkEntitiesValid(b)
           \/ (Plain(b) /\ \A i \in 1..Len(b.records) : b.records[i].status = "Present") }

\* attendance_data.dict(exclude_unset=True): the fields the request sets
AttendanceRecordUpdate ==
    { <<>>,
      "status" :> "Late",
      "flagged" :> FALSE @@ "flagged_reason" :> None,
      "flagged" :> TRUE @@ "flagged_reason" :> Some("Reviewed"),
      "status" :> "Present" @@ "flagged" :> TRUE }

----------------------------------------------------------------------------
(* The requests of the attendance endpoints served one after the other *)

Reply(r) ==
    [op |-> r.op, code |-> r.code, detail |-> r.detail, req |-> r.req,
     created |-> r.created, updated |-> r.updated,
     body |-> IF "body" \in DOMAIN r THEN Some(r.body) ELSE None]

NoReply ==
    [op |-> "none", code |-> 0, detail |-> "", req |-> <<>>,
     created |-> {}, updated |-> {}, body |-> None]

NoSessions == <<>>

Init ==
    /\ attendance_records = <<>>
    /\ student_fees = <<>>
    /\ payments = <<>>
    /\ gateway = <<>>
    /\ now = 0
    /\ sessions = NoSessions
    /\ last = NoReply
    /\ ops = 0

CreateAttendanceRecord ==
    /\ ops < MaxAttendanceOps
    /\ \E current_user \in Callers, attendance_data \in AttendanceRecordCreate :
         LET r == create_attendance_record(attendance_records, current_user, attendance_data)
         IN /\ attendance_records' = r.recs
            /\ last' = Reply(r)
    /\ ops' = ops + 1
    /\ UNCHANGED <<ledger, sessions>>

CreateBulkAttendance ==
    /\ ops < MaxAttendanceOps
    /\ \E current_user \in Callers, bulk_data \in BulkAttendanceCreate :
         LET r == create_bulk_attendance(attendance_records, current_user, bulk_data)
         IN /\ attendance_records' = r.recs
            /\ last' = Reply(r)
    /\ ops' = ops + 1
    /\ UNCHANGED <<ledger, sessions>>

UpdateAttendanceRecord ==
    /\ ops < MaxAttendanceOps
    /\ \E current_user \in Callers, record_id \in 1..(Len(attendance_records) + 1),
          attendance_data \in AttendanceRecordUpdate :
         LET r == update_attendance_record(attendance_records, current_user, record_id,
                                           attendance_data)
         IN /\ attendance_records' = r.recs
            /\ last' = Reply(r)
    /\ ops' = ops + 1
    /\ UNCHANGED <<ledger, sessions>>

NextAttendance ==
    \/ CreateAttendanceRecord
    \/ CreateBulkAttendance
    \/ UpdateAttendanceRecord

SpecAttendance == Init /\ [][NextAttendance]_vars

----------------------------------------------------------------------------
(* Properties of the attendance endpoints *)

SubmitOps == {"create_attendance_record", "create_bulk_attendance"}

\* the rows the last request wrote
Written == last.created \cup last.updated

\* the (student_id, status) pairs the last submit request carried
Submitted ==
    IF last.op = "create_attendance_record"
    THEN {[student_id |-> last.req.student_id, status |-> last.req.status]}
    ELSE IF last.op = "create_bulk_attendance"
    THEN Range(last.req.records)
    ELSE {}

\* the rows of a key that were in the table before the last request
RowsBefore(student_id, date) ==
    RowsFor(attendance_records, student_id, date) \ last.created

\* the last request was a submit whose caller was allowed and whose entities
\* are valid: student(s) and class exist and belong to one school, and a
\* batch lists each student once
PassedValidation ==
    /\ last.op \in SubmitOps
    /\ last.code # 403
    /\ last.op = "create_attendance_record" => SingleEntitiesValid(last.req)
    /\ last.op = "create_bulk_attendance" => BulkEntitiesValid(last.req)

\* C2: in every state reached by single submissions, bulk submissions and
\* explicit updates served one after the other, there is at most one
\* attendance record for each (student_id, date) pair.
AtMostOneRecordPerStudentDate ==
    \A i, j \in 1..Len(attendance_records) :
        (/\ attendance_records[i].student_id = attendance_records[j].student_id
         /\ attendance_records[i].date = attendance_records[j].date) => i = j

\* a bulk submission that updated the record of one student and created the
\* record of another on the same date
C2Witness ==
    /\ last.op = "create_bulk_attendance"
    /\ last.updated # {}
    /\ last.created # {}

BulkResubmissionOverwritesState ==
    (PassedValidation /\ last.op = "create_bulk_attendance") =>
        /\ last.code = 201
        /\ \A sub \in Submitted :
             RowsBefore(sub.student_id, last.req.date) # {} =>
                \E id \in last.updated :
                    LET row == attendance_records[id]
                        g == GeofenceFlag(Classes[last.req.class_id].school_id,
                                          last.req.latitude, last.req.longitude)
                    IN /\ RowsFor(attendance_records, sub.student_id, last.req.date) = {id}
                       /\ row.status = sub.status
                       /\ row.flagged = g.flagged
                       /\ row.flagged_reason = g.flagged_reason

\* C3 as amended, the part on single submit: a single submit for a key that
\* already has a record is rejected with 400 and changes no record.
SingleResubmissionRejectedStep ==
    (/\ last'.op = "create_attendance_record"
     /\ last'.code # 403
     /\ SingleEntitiesValid(last'.req)
     /\ RowsFor(attendance_records, last'.req.student_id, last'.req.date) # {})
    => (last'.code = 400 /\ attendance_records' = attendance_records)

OutsideEveryActiveZone(school, latitude, longitude) ==
    /\ latitude # None
    /\ longitude # None
    /\ \E k \in 1..Len(AuthenticLocations) :
         AuthenticLocations[k].school_id = school /\ AuthenticLocations[k].active
    /\ \A k \in 1..Len(AuthenticLocations) :
         (AuthenticLocations[k].school_id = school /\ AuthenticLocations[k].active) =>
            Abs(AuthenticLocations[k].latitude - latitude[1])
                > AuthenticLocations[k].radius_meters

\* every submitted (student, status) has its record written by the last
\* request, flagged with a reason when the coordinates are outside the zones
PersistedAndFlagged ==
    /\ last.code = 201
    /\ \A sub \in Submitted :
         \E id \in Written :
            LET row == attendance_records[id]
            IN /\ row.student_id = sub.student_id
               /\ row.date = last.req.date
               /\ row.status = sub.status
               /\ OutsideEveryActiveZone(Students[sub.student_id].school_id,
                                         last.req.latitude, last.req.longitude)
                  => (row.flagged = TRUE /\ row.flagged_reason # None)

FlagDecision ==
    (last.op \in SubmitOps /\ last.code = 201) =>
        \A id \in Written :
            LET row == attendance_records[id]
                outside == OutsideEveryActiveZone(Students[row.student_id].school_id,
                                                  row.latitude, row.longitude)
            IN /\ row.flagged = outside
               /\ (row.flagged_reason # None) = outside

\* an inactive zone of the row's school has the row's position in its radius
InInactiveZone(row) ==
    \E k \in 1..Len(AuthenticLocations) :
        /\ AuthenticLocations[k].school_id = Students[row.student_id].school_id
        /\ ~AuthenticLocations[k].active
        /\ row.latitude # None
        /\ Abs(AuthenticLocations[k].latitude - row.latitude[1])
              <= AuthenticLocations[k].radius_meters

\* one batch wrote a flagged record although an inactive zone of the school
\* contains the point
C9Witness ==
    /\ last.op = "create_bulk_attendance"
    /\ last.code = 201
    /\ \E id \in Written :
         attendance_records[id].flagged = TRUE /\ InInactiveZone(attendance_records[id])

\* the batch names a missing class, a missing student or a student of a
\* school other than the class's
BadBatch(b) ==
    \/ b.class_id \notin DOMAIN Classes
    \/ \E i \in 1..Len(b.records) : b.records[i].student_id \notin DOMAIN Students
    \/ \E i \in 1..Len(b.records) :
         /\ b.records[i].student_id \in DOMAIN Students
         /\ Students[b.records[i].student_id].school_id # Classes[b.class_id].school_id

BulkFailsFastStep ==
    (last'.op = "create_bulk_attendance" /\ BadBatch(last'.req)) =>
        /\ last'.code \in {400, 403, 404}
        /\ last'.created = {}
        /\ last'.updated = {}
        /\ attendance_records' = attendance_records

\* C10: a bulk submit whose class does not exist, or that lists a student who
\* does not exist or who belongs to another school than the class, is
\* rejected, and no attendance record is created or modified.
BulkFailsFast == [][BulkFailsFastStep]_vars

\* a batch mixing a student of the class's school with one of another school
\* was rejected while the table held a record
C10Witness ==
    /\ last.op = "create_bulk_attendance"
    /\ last.code = 400
    /\ Len(last.req.records) = 2
    /\ Len(attendance_records) > 0

----------------------------------------------------------------------------
(* The fee ledger: api/finance.py.  Amounts are counted in hundredths of   *)
(* the currency unit (the columns are Numeric(12, 2)).                     *)

\* fee_types.id -> row (models/finance.py); fee type 3 does not exist
FeeTypes ==
    (1 :> [school_id |-> 1]) @@ (2 :> [school_id |-> 2])

\* the authenticated users that send requests to the finance endpoints
LedgerCallers ==
    { [role |-> "super_admin", school_id |-> 0],
      [role |-> "admin_staff", school_id |-> 1],
      [role |-> "parent", school_id |-> 1] }

LedgerResponse(op, code, detail, req, fees, pays, created, updated) ==
    [op |-> op, code |-> code, detail |-> detail, req |-> req,
     fees |-> fees, pays |-> pays, created |-> created, updated |-> updated]

LedgerRejected(op, code, detail, req, fees, pays) ==
    LedgerResponse(op, code, detail, req, fees, pays, {}, {})

\* validate_admin_access with super_admin_only = False
AdminRoles == {"super_admin", "admin_staff"}

\* current_user.role.name != "super_admin" and current_user.school_id != student.school_id
OtherSchoolUnchecked(current_user, student) == FALSE
OtherSchool(current_user, student) ==
    current_user.role # "super_admin" /\ current_user.school_id # student.school_id

\* POST /student-fees
create_student_fee(fees, pays, current_user, student_fee_data) ==
    LET op == "create_student_fee"
        req == [current_user |-> current_user, data |-> student_fee_data]
    IN
    IF student_fee_data.amount_due <= 0 \/ student_fee_data.amount_paid < 0
    THEN LedgerRejected(op, 422, "validation error", req, fees, pays)
    ELSE IF current_user.role \notin AdminRoles
    THEN LedgerRejected(op, 403, "This action requires admin privileges", req, fees, pays)
    ELSE IF student_fee_data.student_id \notin DOMAIN Students
    THEN LedgerRejected(op, 404, "Student not found", req, fees, pays)
    ELSE IF student_fee_data.fee_type_id \notin DOMAIN FeeTypes
    THEN LedgerRejected(op, 404, "Fee type not found", req, fees, pays)
    ELSE IF OtherSchool(current_user, Students[student_fee_data.student_id])
    THEN LedgerRejected(op, 403,
             "Not authorized to assign fees to students from another school",
             req, fees, pays)
    ELSE IF FeeTypes[student_fee_data.fee_type_id].school_id
               # Students[student_fee_data.student_id].school_id
    THEN LedgerRejected(op, 400, "Fee type and student must be from the same school",
                        req, fees, pays)
    ELSE LedgerResponse(op, 201, "", req, Append(fees, student_fee_data), pays,
                        {Len(fees) + 1}, {})

\* the setattr loop of update_student_fee over fee_data.dict(exclude_unset=True)
ApplyFeeUpdateRecomputingStatus(fee, update_data) ==
    LET set == [k \in DOMAIN fee |->
                   IF k \in DOMAIN update_data THEN update_data[k] ELSE fee[k]]
    IN [set EXCEPT !.status = IF set.amount_paid >= set.amount_due THEN "paid"
                              ELSE IF set.amount_paid > 0 THEN "partial"
                              ELSE "pending"]
ApplyFeeUpdate(fee, update_data) ==
    [k \in DOMAIN fee |-> IF k \in DOMAIN update_data THEN update_data[k] ELSE fee[k]]

\* PUT /student-fees/{fee_id}
update_student_fee(fees, pays, current_user, fee_id, fee_data) ==
    LET op == "update_student_fee"
        req == [current_user |-> current_user, fee_id |-> fee_id, data |-> fee_data]
    IN
    IF current_user.role \notin AdminRoles
    THEN LedgerRejected(op, 403, "This action requires admin privileges", req, fees, pays)
    ELSE IF fee_id \notin 1..Len(fees)
    THEN LedgerRejected(op, 404, "Student fee not found", req, fees, pays)
    ELSE IF OtherSchool(current_user, Students[fees[fee_id].student_id])
    THEN LedgerRejected(op, 403,
             "Not authorized to update fees for students from another school",
             req, fees, pays)
    ELSE LedgerResponse(op, 200, "", req,
                        [fees EXCEPT ![fee_id] = ApplyFeeUpdate(@, fee_data)], pays,
                        {}, {fee_id})

\* Python values that take part in the arithmetic of the payment handlers:
\* a Numeric column and a condecimal field hold a decimal.Decimal, the
\* quotient of an int by 100 is a float
Decimal(cents) == [type |-> "Decimal", cents |-> cents]
FloatQuantized(cents) == [type |-> "Decimal", cents |-> cents]
Float(cents) == [type |-> "float", cents |-> cents]

\* fee.amount_paid += value, where fee.amount_paid is a loaded Numeric column:
\* Decimal.__add__ accepts a Decimal and raises TypeError for a float
DecimalIAddCoercing(amount_paid, value) ==
    [raised |-> FALSE, cents |-> amount_paid + value.cents]
DecimalIAdd(amount_paid, value) ==
    IF value.type = "Decimal"
    THEN [raised |-> FALSE, cents |-> amount_paid + value.cents]
    ELSE [raised |-> TRUE, cents |-> amount_paid]

\* the status the payment handlers write after crediting a fee
StatusAfterPaymentStrict(amount_paid, amount_due) ==
    IF amount_paid > amount_due THEN "paid" ELSE "partial"
StatusAfterPayment(amount_paid, amount_due) ==
    IF amount_paid >= amount_due THEN "paid" ELSE "partial"

\* the fee row after fee.amount_paid += amount and the status update
CreditedKeepOverdue(fee, amount_paid) ==
    [fee EXCEPT !.amount_paid = amount_paid,
                !.status = IF fee.status = "overdue" /\ amount_paid < fee.amount_due
                           THEN "overdue"
                           ELSE StatusAfterPayment(amount_paid, fee.amount_due)]
Credited(fee, amount_paid) ==
    [fee EXCEPT !.amount_paid = amount_paid,
                !.status = StatusAfterPayment(amount_paid, fee.amount_due)]

\* POST /payments
create_payment(fees, pays, current_user, payment_data) ==
    LET op == "create_payment"
        req == [current_user |-> current_user, data |-> payment_data]
        fee_id == payment_data.student_fee_id
    IN
    IF payment_data.amount <= 0
    THEN LedgerRejected(op, 422, "validation error", req, fees, pays)
    ELSE IF current_user.role \notin AdminRoles
    THEN LedgerRejected(op, 403, "This action requires admin privileges", req, fees, pays)
    ELSE IF fee_id \notin 1..Len(fees)
    THEN LedgerRejected(op, 404, "Student fee not found", req, fees, pays)
    ELSE IF OtherSchool(current_user, Students[fees[fee_id].student_id])
    THEN LedgerRejected(op, 403,
             "Not authorized to record payments for students from another school",
             req, fees, pays)
    ELSE LET sum == DecimalIAdd(fees[fee_id].amount_paid, Decimal(payment_data.amount))
         IN IF sum.raised
            THEN LedgerRejected(op, 500, "Internal Server Error", req, fees, pays)
            ELSE LedgerResponse(op, 201, "", req,
                                [fees EXCEPT ![fee_id] = Credited(@, sum.cents)],
                                Append(pays, payment_data),
                                {Len(pays) + 1}, {fee_id})

----------------------------------------------------------------------------
(* The payment gateway: services/payments.py and the gateway endpoints *)

\* the amounts, in hundredths, that float arithmetic truncates:
\* int(float(Decimal(c) / 100) * 100) = c - 1 for these c below 300
TruncatedCents ==
    {29, 57, 58, 113, 114, 115, 116, 201, 203, 205, 207, 226, 228, 230, 232,
     251, 253, 255}

\* amount_in_kobo = int(amount * 100), amount the float of a two-place decimal
amount_in_kobo(cents) == IF cents \in TruncatedCents THEN cents - 1 ELSE cents

\* reference = f"fee_{fee.id}_{datetime.now().strftime('%Y%m%d%H%M%S')}"
ReferenceWithoutClock(fee_id, clock) == <<"fee", fee_id, 0>>
Reference(fee_id, clock) == <<"fee", fee_id, clock>>

\* services/payments.py initialize_payment: the gateway registers the
\* transaction when it can be reached and the reference is new to it;
\* otherwise the call raises ValueError
initialize_payment(gw, amount, reference, metadata, reachable) ==
    IF reachable /\ reference \notin DOMAIN gw
    THEN [raised |-> FALSE,
          gateway |-> gw @@ (reference :>
                         [amount |-> amount_in_kobo(amount), metadata |-> metadata,
                          status |-> "abandoned"])]
    ELSE [raised |-> TRUE, gateway |-> gw]

\* services/payments.py verify_payment
verify_payment_ignoring_status(gw, reference, reachable) ==
    IF reachable /\ reference \in DOMAIN gw
    THEN [status |-> TRUE,
          amount |-> gw[reference].amount,
          metadata |-> gw[reference].metadata]
    ELSE [status |-> FALSE, amount |-> 0, metadata |-> [student_fee_id |-> None]]
verify_payment(gw, reference, reachable) ==
    IF reachable /\ reference \in DOMAIN gw
    THEN [status |-> gw[reference].status = "success",
          amount |-> gw[reference].amount,
          metadata |-> gw[reference].metadata]
    ELSE [status |-> FALSE, amount |-> 0, metadata |-> [student_fee_id |-> None]]

GatewayResponse(op, code, detail, req, gw) ==
    [op |-> op, code |-> code, detail |-> detail, req |-> req, gateway |-> gw,
     created |-> {}, updated |-> {}]

\* float(payment_data.amount) > balance, balance the fee's amount_due less its
\* amount_paid as loaded by this request
ExceedsBalanceNever(amount, fee) == FALSE
ExceedsBalance(amount, fee) == amount > fee.amount_due - fee.amount_paid

\* POST /payments/paystack/initialize
initialize_paystack_payment(fees, gw, clock, current_user, payment_data, reachable) ==
    LET op == "initialize_paystack_payment"
        req == [current_user |-> current_user, data |-> payment_data,
                reference |-> Reference(payment_data.student_fee_id, clock),
                reachable |-> reachable]
        fee_id == payment_data.student_fee_id
        fee == fees[fee_id]
        student == Students[fee.student_id]
    IN
    IF payment_data.amount <= 0
    THEN GatewayResponse(op, 422, "validation error", req, gw)
    ELSE IF fee_id \notin 1..Len(fees)
    THEN GatewayResponse(op, 404, "Student fee not found", req, gw)
    ELSE IF current_user.role \notin AdminRoles
            /\ current_user.school_id = student.school_id
            /\ current_user.role = "parent"
    THEN \* select(User).join("student_parents", ...) names no join target
         GatewayResponse(op, 500, "Internal Server Error", req, gw)
    ELSE IF current_user.role \notin AdminRoles
    THEN GatewayResponse(op, 403, "Not authorized to make payments for this student",
                         req, gw)
    ELSE IF ExceedsBalance(payment_data.amount, fee)
    THEN GatewayResponse(op, 400, "Payment amount cannot exceed the balance due", req, gw)
    ELSE LET response == initialize_payment(gw, payment_data.amount, req.reference,
                                            [student_fee_id |-> Some(fee_id)], reachable)
         IN IF response.raised
            THEN GatewayResponse(op, 500, "Failed to initialize payment", req, gw)
            ELSE GatewayResponse(op, 200, "", req, response.gateway)

VerifiedMessage == "Payment verified successfully"

\* POST /payments/paystack/verify
verify_paystack_payment(fees, pays, gw, current_user, reference, reachable) ==
    LET op == "verify_paystack_payment"
        verification_result == verify_payment(gw, reference, reachable)
        req == [current_user |-> current_user, reference |-> reference,
                reachable |-> reachable, confirmed |-> verification_result.status]
        student_fee_id == verification_result.metadata.student_fee_id
        fee_id == student_fee_id[1]
        payment == [student_fee_id |-> fee_id,
                    amount |-> Float(verification_result.amount),
                    payment_method |-> "paystack",
                    payment_reference |-> Some(reference)]
        sum == DecimalIAdd(fees[fee_id].amount_paid, payment.amount)
    IN
    IF ~verification_result.status
    THEN LedgerRejected(op, 200, "Payment verification failed", req, fees, pays)
    ELSE IF student_fee_id = None
    THEN LedgerRejected(op, 200, "Payment metadata does not contain student_fee_id",
                        req, fees, pays)
    ELSE IF fee_id \notin 1..Len(fees)
    THEN LedgerRejected(op, 200, "Student fee not found", req, fees, pays)
    ELSE IF sum.raised
    THEN \* except Exception: the session is closed without a commit
         LedgerRejected(op, 200, "Error processing payment verification", req, fees, pays)
    ELSE LedgerResponse(op, 200, VerifiedMessage, req,
                        [fees EXCEPT ![fee_id] = Credited(@, sum.cents)],
                        Append(pays, [payment EXCEPT !.amount = payment.amount.cents]),
                        {Len(pays) + 1}, {fee_id})

\* sum(float(fee[field]) for fee in fees) over the fees of one student, the
\* first n rows of the table scanned (the sums of the amounts that occur
\* here are exact in binary floating point)
RECURSIVE SumOfFees(_, _, _, _)
SumOfFees(fees, student_id, field, n) ==
    IF n = 0 THEN 0
    ELSE SumOfFees(fees, student_id, field, n - 1)
         + (IF fees[n].student_id = student_id THEN fees[n][field] ELSE 0)

\* the overall status of get_fee_summary
SummaryStatusOverdueFirst(total_paid, total_balance, any_overdue) ==
    IF total_balance <= 0 THEN "paid"
    ELSE IF any_overdue THEN "overdue"
    ELSE IF total_paid > 0 THEN "partial"
    ELSE "pending"
SummaryStatus(total_paid, total_balance, any_overdue) ==
    IF total_balance <= 0 THEN "paid"
    ELSE IF total_paid > 0 THEN "partial"
    ELSE IF any_overdue THEN "overdue"
    ELSE "pending"

\* GET /student-fees/summary/{student_id}
get_fee_summary(fees, pays, current_user, student_id) ==
    LET op == "get_fee_summary"
        req == [current_user |-> current_user, student_id |-> student_id]
        total_due == SumOfFees(fees, student_id, "amount_due", Len(fees))
        total_paid == SumOfFees(fees, student_id, "amount_paid", Len(fees))
        total_balance == total_due - total_paid
        any_overdue == \E i \in 1..Len(fees) :
                          fees[i].student_id = student_id /\ fees[i].status = "overdue"
    IN
    IF student_id \notin DOMAIN Students
    THEN LedgerRejected(op, 404, "Student not found", req, fees, pays)
    ELSE IF OtherSchool(current_user, Students[student_id])
    THEN IF current_user.role = "parent"
         THEN \* select(User).join("student_parents", ...) names no join target
              LedgerRejected(op, 500, "Internal Server Error", req, fees, pays)
         ELSE LedgerRejected(op, 403,
                  "Not authorized to view fees for students from another school",
                  req, fees, pays)
    ELSE [op |-> op, code |-> 200, detail |-> "", req |-> req,
          fees |-> fees, pays |-> pays, created |-> {}, updated |-> {},
          body |-> [total_due |-> total_due, total_paid |-> total_paid,
                    total_balance |-> total_balance,
                    payment_status |-> SummaryStatus(total_paid, total_balance,
                                                     any_overdue)]]

----------------------------------------------------------------------------
(* The requests of the fee ledger served one after the other *)

\* StudentFeeCreate bodies: well-formed ones, and one for each rejection
StudentFeeCreate ==
    { [student_id |-> sf[1], fee_type_id |-> sf[2], amount_due |-> 100,
       amount_paid |-> p, status |-> st] :
         sf \in {<<1, 1>>, <<3, 2>>}, p \in {0, 100}, st \in {"pending", "overdue"} }
    \cup
    { [student_id |-> sf[1], fee_type_id |-> sf[2], amount_due |-> sf[3],
       amount_paid |-> 0, status |-> "pending"] :
         sf \in {<<4, 1, 100>>, <<1, 3, 100>>, <<1, 2, 100>>, <<1, 1, 0>>} }

\* fee_data.dict(exclude_unset=True): the fields the request sets
StudentFeeUpdate ==
    { <<>>,
      "status" :> "overdue",
      "status" :> "paid",
      "amount_due" :> 200,
      "amount_paid" :> 0 }

PaymentAmounts == {-29, 0, 29, 71}

PaymentCreate ==
    [student_fee_id : 1..3, amount : PaymentAmounts, payment_method : {"manual"},
     payment_reference : {None}]

CreateStudentFee ==
    /\ ops < MaxLedgerOps
    /\ \E current_user \in LedgerCallers, student_fee_data \in StudentFeeCreate :
         LET r == create_student_fee(student_fees, payments, current_user, student_fee_data)
         IN /\ student_fees' = r.fees
            /\ last' = Reply(r)
    /\ ops' = ops + 1
    /\ UNCHANGED <<attendance_records, payments, gateway, now, sessions>>

UpdateStudentFee ==
    /\ ops < MaxLedgerOps
    /\ \E current_user \in LedgerCallers, fee_id \in 1..(Len(student_fees) + 1),
          fee_data \in StudentFeeUpdate :
         LET r == update_student_fee(student_fees, payments, current_user, fee_id, fee_data)
         IN /\ student_fees' = r.fees
            /\ last' = Reply(r)
    /\ ops' = ops + 1
    /\ UNCHANGED <<attendance_records, payments, gateway, now, sessions>>

CreatePayment ==
    /\ ops < MaxLedgerOps
    /\ \E current_user \in LedgerCallers, payment_data \in PaymentCreate :
         /\ payment_data.student_fee_id <= Len(student_fees) + 1
         /\ LET r == create_payment(student_fees, payments, current_user, payment_data)
            IN /\ student_fees' = r.fees
               /\ payments' = r.pays
               /\ last' = Reply(r)
    /\ ops' = ops + 1
    /\ UNCHANGED <<attendance_records, gateway, now, sessions>>

GetFeeSummary ==
    /\ ops < MaxLedgerOps
    /\ \E current_user \in LedgerCallers, student_id \in StudentIdInputs :
         LET r == get_fee_summary(student_fees, payments, current_user, student_id)
         IN /\ student_fees' = r.fees
            /\ payments' = r.pays
            /\ last' = Reply(r)
    /\ ops' = ops + 1
    /\ UNCHANGED <<attendance_records, gateway, now, sessions>>

NextLedger ==
    \/ CreateStudentFee
    \/ UpdateStudentFee
    \/ CreatePayment
    \/ GetFeeSummary

SpecLedger == Init /\ [][NextLedger]_vars

----------------------------------------------------------------------------
(* The gateway endpoints served one after the other, the customers paying  *)
(* at the gateway and the clock advancing in between                       *)

\* a ledger with two open fees, as create_bulk_student_fees leaves them
OpenFees ==
    << [student_id |-> 1, fee_type_id |-> 1, amount_due |-> 100, amount_paid |-> 0,
        status |-> "pending"],
       [student_id |-> 3, fee_type_id |-> 2, amount_due |-> 100, amount_paid |-> 0,
        status |-> "pending"] >>

\* transactions of the gateway account that this server did not initialize:
\* one without student_fee_id in its metadata, one naming a fee that is gone,
\* one of amount zero naming fee 1, one of amount 0.71 naming fee 1
ForeignTransactions ==
    (<<"ext", 0, 0>> :> [amount |-> 5000, metadata |-> [student_fee_id |-> None],
                         status |-> "success"])
    @@ (<<"ext", 9, 0>> :> [amount |-> 100, metadata |-> [student_fee_id |-> Some(9)],
                            status |-> "success"])
    @@ (<<"ext", 1, 0>> :> [amount |-> 0, metadata |-> [student_fee_id |-> Some(1)],
                            status |-> "success"])
    @@ (<<"ext", 1, 1>> :> [amount |-> 71, metadata |-> [student_fee_id |-> Some(1)],
                            status |-> "success"])

\* a reference the gateway has never seen
UnknownReference == <<"fee", 1, 99>>

InitGateway ==
    /\ attendance_records = <<>>
    /\ student_fees = OpenFees
    /\ payments = <<>>
    /\ gateway = ForeignTransactions
    /\ now = 0
    /\ sessions = NoSessions
    /\ last = NoReply
    /\ ops = 0

PaystackPaymentInit == [student_fee_id : 1..3, amount : {0, 29, 71, 200}]

InitializePaystackPaymentRecordingPayment ==
    /\ ops < MaxGatewayOps
    /\ \E current_user \in LedgerCallers, payment_data \in PaystackPaymentInit,
          reachable \in BOOLEAN :
         LET r == initialize_paystack_payment(student_fees, gateway, now, current_user,
                                              payment_data, reachable)
         IN /\ gateway' = r.gateway
            /\ payments' = IF r.code = 200
                           THEN Append(payments,
                                       [student_fee_id |-> payment_data.student_fee_id,
                                        amount |-> payment_data.amount,
                                        payment_method |-> "paystack",
                                        payment_reference |-> Some(r.req.reference)])
                           ELSE payments
            /\ last' = Reply(r)
    /\ ops' = ops + 1
    /\ UNCHANGED <<attendance_records, student_fees, now, sessions>>

InitializePaystackPayment ==
    /\ ops < MaxGatewayOps
    /\ \E current_user \in LedgerCallers, payment_data \in PaystackPaymentInit,
          reachable \in BOOLEAN :
         LET r == initialize_paystack_payment(student_fees, gateway, now, current_user,
                                              payment_data, reachable)
         IN /\ gateway' = r.gateway
            /\ last' = Reply(r)
    /\ ops' = ops + 1
    /\ UNCHANGED <<attendance_records, student_fees, payments, now, sessions>>

VerifyPaystackPayment ==
    /\ ops < MaxGatewayOps
    /\ \E current_user \in LedgerCallers,
          reference \in DOMAIN gateway \cup {UnknownReference}, reachable \in BOOLEAN :
         LET r == verify_paystack_payment(student_fees, payments, gateway, current_user,
                                          reference, reachable)
         IN /\ student_fees' = r.fees
            /\ payments' = r.pays
            /\ last' = Reply(r)
    /\ ops' = ops + 1
    /\ UNCHANGED <<attendance_records, gateway, now, sessions>>

\* the customer completes the checkout of an initialized transaction
CustomerPays ==
    /\ \E reference \in DOMAIN gateway :
         /\ gateway[reference].status = "abandoned"
         /\ gateway' = [gateway EXCEPT ![reference].status = "success"]
    /\ UNCHANGED <<attendance_records, student_fees, payments, now, sessions, last, ops>>

\* the charge of an initialized transaction is declined
CustomerFails ==
    /\ \E reference \in DOMAIN gateway :
         /\ gateway[reference].status = "abandoned"
         /\ gateway' = [gateway EXCEPT ![reference].status = "failed"]
    /\ UNCHANGED <<attendance_records, student_fees, payments, now, sessions, last, ops>>

\* datetime.now() moves on to the next second
Tick ==
    /\ now < MaxClock
    /\ now' = now + 1
    /\ UNCHANGED <<attendance_records, student_fees, payments, gateway, sessions, last, ops>>

NextGateway ==
    \/ InitializePaystackPayment
    \/ VerifyPaystackPayment
    \/ CustomerPays
    \/ CustomerFails
    \/ Tick

SpecGateway == InitGateway /\ [][NextGateway]_vars

----------------------------------------------------------------------------
(* Two requests in flight.  Each request runs in its own AsyncSession       *)
(* (database.py get_db); what it has read stays in its session until its   *)
(* commit, and the commits of the two sessions are serialised by the       *)
(* database.                                                               *)

Sessions == {1, 2}

IdleSession == [pc |-> "idle", req |-> None, loaded |-> None, reply |-> NoReply]

\* the UPDATE a commit flushes for a loaded row: the unit of work writes the
\* attributes whose value differs from the loaded one, and no others
Flush(current, loaded, modified) ==
    [k \in DOMAIN current |-> IF modified[k] # loaded[k] THEN modified[k] ELSE current[k]]

InitPayRace ==
    /\ attendance_records = <<>>
    /\ student_fees = OpenFees
    /\ payments = <<>>
    /\ gateway = <<>>
    /\ now = 0
    /\ sessions = [p \in Sessions |-> IdleSession]
    /\ last = NoReply
    /\ ops = 0

RacePayments ==
    [student_fee_id : 1..2, amount : {29, 71}, payment_method : {"manual"},
     payment_reference : {None}]

\* create_payment up to the second query: the access checks, and the fee and
\* the student loaded into the session
PaymentLoad(p) ==
    /\ sessions[p].pc = "idle"
    /\ \E current_user \in LedgerCallers, payment_data \in RacePayments :
         LET r == create_payment(student_fees, payments, current_user, payment_data)
         IN IF r.code # 201
            THEN /\ sessions' = [sessions EXCEPT ![p] =
                        [pc |-> "done", req |-> Some(payment_data), loaded |-> None,
                         reply |-> Reply(r)]]
                 /\ last' = Reply(r)
            ELSE /\ sessions' = [sessions EXCEPT ![p] =
                        [pc |-> "loaded", req |-> Some(payment_data),
                         loaded |-> Some(student_fees[payment_data.student_fee_id]),
                         reply |-> Reply(r)]]
                 /\ UNCHANGED last
    /\ UNCHANGED <<attendance_records, student_fees, payments, gateway, now, ops>>

\* create_payment from db.add(db_payment) to the commit: the increment and the
\* status are computed from the loaded fee
PaymentCommit(p) ==
    /\ sessions[p].pc = "loaded"
    /\ LET payment_data == sessions[p].req[1]
           fee == sessions[p].loaded[1]
           fee_id == payment_data.student_fee_id
           sum == DecimalIAdd(fee.amount_paid, Decimal(payment_data.amount))
       IN /\ payments' = Append(payments, payment_data)
          /\ student_fees' = [student_fees EXCEPT ![fee_id] =
                                 Flush(@, fee, Credited(fee, sum.cents))]
          /\ sessions' = [sessions EXCEPT ![p].pc = "done",
                                          ![p].reply.created = {Len(payments) + 1}]
          /\ last' = [sessions[p].reply EXCEPT !.created = {Len(payments) + 1}]
    /\ UNCHANGED <<attendance_records, gateway, now, ops>>

NextPayRace ==
    \/ \E p \in Sessions : PaymentLoad(p)
    \/ \E p \in Sessions : PaymentCommit(p)

SpecPayRace == InitPayRace /\ [][NextPayRace]_vars

InitSubmitRace ==
    /\ attendance_records = <<>>
    /\ student_fees = <<>>
    /\ payments = <<>>
    /\ gateway = <<>>
    /\ now = 0
    /\ sessions = [p \in Sessions |-> IdleSession]
    /\ last = NoReply
    /\ ops = 0

RaceSubmissions ==
    {r \in AttendanceRecordCreate :
        /\ r.student_id \in {1, 2} /\ r.class_id = 1
        /\ <<r.latitude, r.longitude>> \in {<<None, None>>, <<Some(500), Some(0)>>}}

\* create_attendance_record up to the existence check
SubmitCheck(p) ==
    /\ sessions[p].pc = "idle"
    /\ \E current_user \in Callers, attendance_data \in RaceSubmissions :
         LET r == create_attendance_record(attendance_records, current_user, attendance_data)
         IN IF r.code # 201
            THEN /\ sessions' = [sessions EXCEPT ![p] =
                        [pc |-> "done", req |-> Some(attendance_data), loaded |-> None,
                         reply |-> Reply(r)]]
                 /\ last' = Reply(r)
            ELSE /\ sessions' = [sessions EXCEPT ![p] =
                        [pc |-> "checked", req |-> Some(attendance_data),
                         loaded |-> Some(r.recs[Len(r.recs)]), reply |-> Reply(r)]]
                 /\ UNCHANGED last
    /\ UNCHANGED <<attendance_records, ledger, ops>>

\* create_attendance_record from the geofence to the commit: the INSERT
SubmitCommit(p) ==
    /\ sessions[p].pc = "checked"
    /\ attendance_records' = Append(attendance_records, sessions[p].loaded[1])
    /\ sessions' = [sessions EXCEPT ![p].pc = "done",
                                    ![p].reply.created = {Len(attendance_records) + 1}]
    /\ last' = [sessions[p].reply EXCEPT !.created = {Len(attendance_records) + 1}]
    /\ UNCHANGED <<ledger, ops>>

NextSubmitRace ==
    \/ \E p \in Sessions : SubmitCheck(p)
    \/ \E p \in Sessions : SubmitCommit(p)

SpecSubmitRace == InitSubmitRace /\ [][NextSubmitRace]_vars


----------------------------------------------------------------------------
(* Properties of the fee ledger *)

\* C4: the status of every StudentFee is consistent with its amounts in
\* every reachable state: amount_paid >= amount_due implies status "paid",
\* and 0 < amount_paid < amount_due implies status "partial".
StatusConsistentWithAmounts ==
    \A i \in 1..Len(student_fees) :
        LET fee == student_fees[i]
        IN /\ fee.amount_paid >= fee.amount_due => fee.status = "paid"
           /\ (0 < fee.amount_paid /\ fee.amount_paid < fee.amount_due)
                  => fee.status = "partial"

\* the sum of the amounts of the first n Payment rows that reference a fee
RECURSIVE PaidInto(_, _, _)
PaidInto(pays, fee_id, n) ==
    IF n = 0 THEN 0
    ELSE PaidInto(pays, fee_id, n - 1)
         + (IF pays[n].student_fee_id = fee_id THEN pays[n].amount ELSE 0)

\* the Payment rows that carry a reference
RowsWithReference(reference) ==
    {i \in 1..Len(payments) : payments[i].payment_reference = Some(reference)}

\* the last request was a verify of a reference that the gateway reports as
\* a successful transaction of an existing fee
VerifiedSettledReference ==
    /\ last.op = "verify_paystack_payment"
    /\ last.req.confirmed
    /\ gateway[last.req.reference].metadata.student_fee_id # None
    /\ gateway[last.req.reference].metadata.student_fee_id[1] \in 1..Len(student_fees)

\* C1: after any number (>= 1) of verify calls for a reference that the
\* gateway confirms as successful, there is exactly one Payment row with
\* that reference, the fee has been credited with its amount exactly once,
\* and the call returns success.
VerifyIdempotentPerReference ==
    VerifiedSettledReference =>
        LET reference == last.req.reference
            fee_id == gateway[reference].metadata.student_fee_id[1]
        IN /\ Cardinality(RowsWithReference(reference)) = 1
           /\ student_fees[fee_id].amount_paid = PaidInto(payments, fee_id, Len(payments))
           /\ student_fees[fee_id].amount_paid > 0
           /\ last.detail = VerifiedMessage

\* C5: payment application is atomic over its two writes: in every
\* committed state, for every StudentFee created with amount_paid = 0,
\* amount_paid equals the sum of the amounts of the Payment rows that
\* reference it.
PaymentApplicationAtomic ==
    \A fee_id \in 1..Len(student_fees) :
        student_fees[fee_id].amount_paid = PaidInto(payments, fee_id, Len(payments))

BothCommitted ==
    /\ sessions # NoSessions
    /\ \A p \in Sessions : sessions[p].pc = "done" /\ sessions[p].reply.code = 201

\* C6: when two payment applications for the same StudentFee run
\* concurrently, their reads and writes interleaved in any order, the final
\* amount_paid is the initial amount_paid plus both payment amounts.
NoLostUpdate ==
    (BothCommitted /\ sessions[1].req[1].student_fee_id = sessions[2].req[1].student_fee_id)
        => LET fee_id == sessions[1].req[1].student_fee_id
           IN student_fees[fee_id].amount_paid
                  = OpenFees[fee_id].amount_paid
                    + sessions[1].req[1].amount + sessions[2].req[1].amount

\* C7: after two concurrent single submits for the same (student, date) have
\* both completed, there is exactly one AttendanceRecord for that key.
ConcurrentSubmitsLeaveOneRecord ==
    (/\ sessions # NoSessions
     /\ \A p \in Sessions : sessions[p].pc = "done"
     /\ sessions[1].req[1].student_id = sessions[2].req[1].student_id
     /\ sessions[1].req[1].date = sessions[2].req[1].date
     /\ \E p \in Sessions : sessions[p].reply.code = 201)
        => Cardinality(RowsFor(attendance_records, sessions[1].req[1].student_id,
                               sessions[1].req[1].date)) = 1

----------------------------------------------------------------------------
(* Further properties of the attendance endpoints *)

\* C11: after a successful bulk submit every record of the batch, created
\* or updated, carries the same flagged and flagged_reason: flagged with the
\* reason exactly when the batch's coordinate pair is outside every active
\* zone of the class's school.
BulkGeofenceOncePerBatch ==
    (last.op = "create_bulk_attendance" /\ last.code = 201) =>
        LET outside == OutsideEveryActiveZone(Classes[last.req.class_id].school_id,
                                              last.req.latitude, last.req.longitude)
        IN /\ \A id \in Written :
                /\ attendance_records[id].flagged = outside
                /\ attendance_records[id].flagged_reason
                       = (IF outside THEN Some(OutsideReason) ELSE None)
           /\ \A id1, id2 \in Written :
                attendance_records[id1].flagged = attendance_records[id2].flagged

\* a batch sent from outside every active zone created one record and
\* updated an existing one, and both are stored flagged
C11Witness ==
    /\ last.op = "create_bulk_attendance"
    /\ last.code = 201
    /\ last.created # {}
    /\ last.updated # {}
    /\ last.req.latitude = Some(500)
    /\ \A id \in Written : attendance_records[id].flagged = TRUE

----------------------------------------------------------------------------
(* Further properties of the fee ledger and the gateway endpoints *)

\* the replies that reject a request for its amount
InvalidAmount(reply) ==
    /\ reply.code \in {400, 422}
    /\ reply.detail \in {"validation error", "Payment amount must be positive",
                         "Payment amount cannot exceed the balance due"}

\* the last request applied a payment of zero or negative amount: a manual
\* payment, or the verification of a settled transaction of an existing fee
NonPositivePayment ==
    \/ last.op = "create_payment" /\ last.req.data.amount <= 0
    \/ VerifiedSettledReference /\ gateway[last.req.reference].amount <= 0

\* C12: applying a payment of zero or negative amount, manually or through
\* a verified gateway callback, fails with InvalidAmount, creates no Payment
\* row and leaves the fee's amount_paid and status unchanged.
NonPositivePaymentRejected ==
    NonPositivePayment =>
        /\ InvalidAmount(last)
        /\ last.created = {}
        /\ last.updated = {}

\* the step serves an initialize request of a caller with an admin role
InitializeByAdminStep ==
    /\ ops' = ops + 1
    /\ last'.op = "initialize_paystack_payment"
    /\ last'.req.current_user.role \in AdminRoles

\* the amount of the request is not positive or exceeds the balance of the
\* fee as it is when the request arrives
OutOfRange(payment_data) ==
    \/ payment_data.amount <= 0
    \/ payment_data.amount > student_fees[payment_data.student_fee_id].amount_due
                             - student_fees[payment_data.student_fee_id].amount_paid

InitializeRejectsOutOfRangeStep ==
    (/\ InitializeByAdminStep
     /\ last'.req.data.student_fee_id \in 1..Len(student_fees)
     /\ OutOfRange(last'.req.data))
        => (InvalidAmount(last') /\ gateway' = gateway)

VerifyStep ==
    /\ ops' = ops + 1
    /\ last'.op = "verify_paystack_payment"

\* the step answers with a failure result and this message, writes nothing
StructuredFailure(message) ==
    /\ last'.code = 200
    /\ last'.detail = message
    /\ last'.detail # VerifiedMessage
    /\ last'.created = {}
    /\ last'.updated = {}
    /\ payments' = payments
    /\ student_fees' = student_fees

\* the gateway answers the verify request of the step with a successful
\* transaction
GatewayConfirms ==
    /\ last'.req.reachable
    /\ last'.req.reference \in DOMAIN gateway
    /\ gateway[last'.req.reference].status = "success"

VerifyFailuresStructuredStep ==
    VerifyStep =>
        LET metadata == gateway[last'.req.reference].metadata
        IN /\ ~GatewayConfirms => StructuredFailure("Payment verification failed")
           /\ (GatewayConfirms /\ metadata.student_fee_id = None)
                => StructuredFailure("Payment metadata does not contain student_fee_id")
           /\ (GatewayConfirms /\ metadata.student_fee_id # None
               /\ metadata.student_fee_id[1] \notin 1..Len(student_fees))
                => StructuredFailure("Student fee not found")

\* C14: when the gateway reports failure, when the gateway call times out or
\* cannot connect, when the echoed metadata carries no student_fee_id, or
\* when the referenced StudentFee does not exist, verify returns a failure
\* result with a message, raises no exception, inserts no Payment row and
\* changes no StudentFee.
VerifyFailuresStructured == [][VerifyFailuresStructuredStep]_vars

\* the gateway could not be reached when a transaction that this server
\* initialized and the customer paid was verified
C14Witness ==
    /\ last.op = "verify_paystack_payment"
    /\ ~last.req.reachable
    /\ last.req.reference \in DOMAIN gateway
    /\ last.req.reference[1] = "fee"
    /\ gateway[last.req.reference].status = "success"
    /\ last.detail = "Payment verification failed"

----------------------------------------------------------------------------
(* Validation of the single submit *)

\* the step serves a single submit that is not refused for the caller's
\* role or school
SingleSubmitStep ==
    /\ ops' = ops + 1
    /\ last'.op = "create_attendance_record"
    /\ last'.code # 403

SingleSubmitValidationStep ==
    SingleSubmitStep =>
        LET d == last'.req
            missing == d.student_id \notin DOMAIN Students
                       \/ d.class_id \notin DOMAIN Classes
        IN /\ missing =>
                /\ last'.code = 404
                /\ attendance_records' = attendance_records
           /\ (~missing
               /\ Classes[d.class_id].school_id # Students[d.student_id].school_id) =>
                /\ last'.code = 400
                /\ last'.detail = "Class and student must be from the same school"
                /\ attendance_records' = attendance_records

\* C15: a single submit whose student or class does not exist fails with
\* NotFound, one whose class belongs to another school than the student
\* fails with SchoolMismatch, and in each case no attendance record is
\* created or modified.
SingleSubmitValidation == [][SingleSubmitValidationStep]_vars

\* a single submit naming a class of another school than the student's was
\* refused while the table held a record
C15Witness ==
    /\ last.op = "create_attendance_record"
    /\ last.code = 400
    /\ last.detail = "Class and student must be from the same school"
    /\ Len(attendance_records) = 1

----------------------------------------------------------------------------
(* The fee summary *)

\* the sum of a field over a set of rows of student_fees
RECURSIVE TotalOver(_, _)
TotalOver(ids, field) ==
    IF ids = {} THEN 0
    ELSE LET id == CHOOSE i \in ids : TRUE
         IN student_fees[id][field] + TotalOver(ids \ {id}, field)

FeesOf(student_id) ==
    {i \in 1..Len(student_fees) : student_fees[i].student_id = student_id}

\* the step answers a summary request with a summary
SummaryStep ==
    /\ ops' = ops + 1
    /\ last'.op = "get_fee_summary"
    /\ last'.code = 200

SummaryIsPureAggregationStep ==
    SummaryStep =>
        LET ids == FeesOf(last'.req.student_id)
            summary == last'.body[1]
            due == TotalOver(ids, "amount_due")
            paid == TotalOver(ids, "amount_paid")
        IN /\ summary.total_due = due
           /\ summary.total_paid = paid
           /\ summary.total_balance = due - paid
           /\ due - paid <= 0 => summary.payment_status = "paid"
           /\ (due - paid > 0 /\ paid > 0) => summary.payment_status = "partial"
           /\ (due - paid > 0 /\ paid = 0
               /\ \E i \in ids : student_fees[i].status = "overdue")
                => summary.payment_status = "overdue"
           /\ (due - paid > 0 /\ paid = 0
               /\ \A i \in ids : student_fees[i].status # "overdue")
                => summary.payment_status = "pending"
           /\ student_fees' = student_fees
           /\ payments' = payments

\* C16: the summary of a student returns total_due and total_paid as sums
\* over the student's fees, total_balance as their difference, and the
\* status paid if the balance is <= 0, else partial if something was paid,
\* else overdue if one of the fees is overdue, else pending; it changes no
\* StudentFee and no Payment.
SummaryIsPureAggregation == [][SummaryIsPureAggregationStep]_vars

\* a summary over two fees of one student, one overdue and unpaid, the
\* other paid: the overall status is partial
C16Witness ==
    /\ last.op = "get_fee_summary"
    /\ last.code = 200
    /\ Cardinality(FeesOf(last.req.student_id)) = 2
    /\ \E i \in FeesOf(last.req.student_id) : student_fees[i].status = "overdue"
    /\ last.body[1].payment_status = "partial"
    /\ last.body[1].total_balance = 100

----------------------------------------------------------------------------
(* The status of a fee after a payment *)

\* the step applies a manual payment
PaymentAppliedStep ==
    /\ ops' = ops + 1
    /\ last'.op = "create_payment"
    /\ last'.code = 201

StatusFromNewBalanceStep ==
    PaymentAppliedStep =>
        LET fee_id == last'.req.data.student_fee_id
            before == student_fees[fee_id]
            after == student_fees'[fee_id]
        IN /\ after.amount_paid = before.amount_paid + last'.req.data.amount
           /\ after.amount_due = before.amount_due
           /\ after.status = (IF after.amount_paid >= after.amount_due THEN "paid"
                              ELSE IF after.amount_paid > 0 THEN "partial"
                              ELSE before.status)

\* C17: after a payment is applied the status is "paid" if the new
\* amount_paid >= amount_due, otherwise "partial" if the new amount_paid > 0,
\* otherwise it is left as it was; two payments that add up to amount_due
\* give partial, then paid.
StatusFromNewBalance == [][StatusFromNewBalanceStep]_vars

\* a fee of 100 created unpaid has received the payments 29 and 71, in either
\* order, and is paid
C17Witness ==
    /\ last.op = "create_payment"
    /\ last.code = 201
    /\ Len(payments) = 2
    /\ payments[1].student_fee_id = payments[2].student_fee_id
    /\ payments[1].amount + payments[2].amount = 100
    /\ student_fees[payments[1].student_fee_id].amount_due = 100
    /\ student_fees[payments[1].student_fee_id].amount_paid = 100
    /\ student_fees[payments[1].student_fee_id].status = "paid"

\* the step applies a manual payment to a fee whose status is "overdue"
PaymentOnOverdueStep ==
    /\ PaymentAppliedStep
    /\ student_fees[last'.req.data.student_fee_id].status = "overdue"

----------------------------------------------------------------------------
(* Reconciliation and initialization *)

\* C19: when the gateway confirms success for a reference, with a positive
\* amount, and echoes the id of an existing StudentFee, verify inserts exactly one Payment with
\* payment_method "paystack", that reference and the gateway's amount
\* converted to major units, increases the fee's amount_paid by the same
\* amount, and returns success.
SuccessfulReconciliation ==
    [][(/\ VerifyStep
        /\ GatewayConfirms
        /\ gateway[last'.req.reference].amount > 0
        /\ gateway[last'.req.reference].metadata.student_fee_id # None
        /\ gateway[last'.req.reference].metadata.student_fee_id[1]
              \in 1..Len(student_fees))
          => LET reference == last'.req.reference
                 fee_id == gateway[reference].metadata.student_fee_id[1]
                 amount == gateway[reference].amount
             IN /\ last'.detail = VerifiedMessage
                /\ payments' = Append(payments,
                                      [student_fee_id |-> fee_id, amount |-> amount,
                                       payment_method |-> "paystack",
                                       payment_reference |-> Some(reference)])
                /\ student_fees'[fee_id].amount_paid
                       = student_fees[fee_id].amount_paid + amount]_vars

\* the step serves an initialize request
InitializeStep ==
    /\ ops' = ops + 1
    /\ last'.op = "initialize_paystack_payment"

InitializeNoLedgerEffectStep ==
    InitializeStep =>
        /\ payments' = payments
        /\ student_fees' = student_fees
        /\ last'.code # 200 => gateway' = gateway
        /\ last'.code = 200 =>
              /\ last'.req.reference \notin DOMAIN gateway
              /\ DOMAIN gateway' = DOMAIN gateway \cup {last'.req.reference}
              /\ \A reference \in DOMAIN gateway : gateway'[reference] = gateway[reference]

\* C20: whether initialize succeeds, is rejected by validation, or the
\* gateway fails, it inserts no Payment row and leaves every StudentFee
\* unchanged; a failure of the gateway is surfaced without a retry, and a
\* success registers exactly one transaction at the gateway.
InitializeNoLedgerEffect == [][InitializeNoLedgerEffectStep]_vars

\* an initialize failed at the gateway, after an earlier one had registered
\* a transaction
C20Witness ==
    /\ last.op = "initialize_paystack_payment"
    /\ last.code = 500
    /\ last.detail = "Failed to initialize payment"
    /\ \E reference \in DOMAIN gateway : reference[1] = "fee"
    /\ payments = <<>>
    /\ student_fees = OpenFees

----------------------------------------------------------------------------
(* The lifecycle of a StudentFee *)

\* the request of the step changed amount_paid or status of the existing fee i
PaidOrStatusChanged(i) ==
    \/ student_fees'[i].amount_paid # student_fees[i].amount_paid
    \/ student_fees'[i].status # student_fees[i].status

\* no step removes a row of student_fees or moves it to another student,
\* fee type
FeesNeverDeletedStep ==
    /\ Len(student_fees') >= Len(student_fees)
    /\ \A i \in 1..Len(student_fees) :
          /\ student_fees'[i].student_id = student_fees[i].student_id
          /\ student_fees'[i].fee_type_id = student_fees[i].fee_type_id

AmountPaidMonotone ==
    [][\A i \in 1..Len(student_fees) :
          student_fees'[i].amount_paid >= student_fees[i].amount_paid]_vars

----------------------------------------------------------------------------
(* api/attendance.py: POST /attendance/verify-location *)

\* contents of the authentic_locations table, rows in primary-key order: the
\* reference table, one whose wide zone admits candidates that lie nearer
\* to the narrow zone, and one with two overlapping zones of equal radius
LocationTables ==
    { AuthenticLocations,
      << [school_id |-> 1, name |-> "Main gate", latitude |-> 0, longitude |-> 0,
          radius_meters |-> 300, active |-> TRUE],
         [school_id |-> 1, name |-> "Sports field", latitude |-> 250, longitude |-> 0,
          radius_meters |-> 50, active |-> TRUE],
         [school_id |-> 1, name |-> "Old annex", latitude |-> 500, longitude |-> 0,
          radius_meters |-> 100, active |-> FALSE] >>,
      << [school_id |-> 1, name |-> "Main gate", latitude |-> 0, longitude |-> 0,
          radius_meters |-> 150, active |-> TRUE],
         [school_id |-> 1, name |-> "Sports field", latitude |-> 200, longitude |-> 0,
          radius_meters |-> 150, active |-> TRUE] >> }

\* select(AuthenticLocation).where(school_id == school, active == True)
LocationsOf(authentic_locations, school) ==
    SelectSeq(authentic_locations, LAMBDA l : l.school_id = school /\ l.active = TRUE)

\* is_valid, closest_distance, closest_location before the loop;
\* float('inf') is the distance None, above every distance
NothingScanned == [is_valid |-> FALSE, closest_distance |-> None, closest_location |-> None]

\* one iteration of the loop over locations
ScanLocationAnyZone(acc, location, lat, lon) ==
    LET distance == verify_location(lat, lon, location.latitude, location.longitude,
                                    location.radius_meters)
        closer == acc.closest_distance = None \/ distance < acc.closest_distance[1]
        scanned == IF closer
                   THEN [acc EXCEPT !.closest_distance = Some(distance),
                                    !.closest_location = Some(location)]
                   ELSE acc
    IN IF distance <= location.radius_meters
       THEN [scanned EXCEPT !.is_valid = TRUE]
       ELSE scanned
ScanLocation(acc, location, lat, lon) ==
    LET distance == verify_location(lat, lon, location.latitude, location.longitude,
                                    location.radius_meters)
    IN IF distance <= location.radius_meters
       THEN IF acc.closest_distance = None \/ distance < acc.closest_distance[1]
            THEN [is_valid |-> TRUE, closest_distance |-> Some(distance),
                  closest_location |-> Some(location)]
            ELSE [acc EXCEPT !.is_valid = TRUE]
       ELSE acc

\* the loop over locations[1..n]
RECURSIVE ScanLocations(_, _, _, _)
ScanLocations(locations, n, lat, lon) ==
    IF n = 0 THEN NothingScanned
    ELSE ScanLocation(ScanLocations(locations, n - 1, lat, lon), locations[n], lat, lon)

\* min(verify_location(lat, lon, loc.latitude, loc.longitude) for loc in
\* locations), locations not empty
MinDistance(locations, lat, lon) ==
    Min({verify_location(lat, lon, locations[i].latitude, locations[i].longitude, None) :
            i \in 1..Len(locations)})

VerifiedAsAuthentic(distance, name) ==
    <<"Location verified as authentic (within ", distance, "m of ", name, ")">>

VerifyLocationRejected(code, detail, req) ==
    [op |-> "verify_attendance_location", code |-> code, detail |-> detail, req |-> req,
     created |-> {}, updated |-> {}]

\* POST /attendance/verify-location
verify_attendance_location(authentic_locations, current_user, location_data) ==
    LET req == [current_user |-> current_user, data |-> location_data,
                authentic_locations |-> authentic_locations]
        locations == LocationsOf(authentic_locations, location_data.school_id)
        scan == ScanLocations(locations, Len(locations), location_data.latitude,
                              location_data.longitude)
    IN
    IF current_user.role # "super_admin" /\ current_user.school_id # location_data.school_id
    THEN VerifyLocationRejected(403, "Not authorized to verify locations for this school",
                                req)
    ELSE IF Len(locations) = 0
    THEN VerifyLocationRejected(404, "No authentic locations defined for this school", req)
    ELSE [op |-> "verify_attendance_location", code |-> 200, detail |-> "", req |-> req,
          created |-> {}, updated |-> {},
          body |-> IF scan.is_valid
                   THEN [is_valid |-> TRUE,
                         distance |-> scan.closest_distance,
                         location_name |-> Some(scan.closest_location[1].name),
                         message |-> VerifiedAsAuthentic(scan.closest_distance[1],
                                                         scan.closest_location[1].name)]
                   ELSE [is_valid |-> FALSE,
                         distance |-> Some(MinDistance(locations, location_data.latitude,
                                                       location_data.longitude)),
                         location_name |-> None,
                         message |-> OutsideReason]]

\* GPSVerificationRequest bodies: candidates on the meridian of the zones
GPSVerificationRequest ==
    [latitude : {0, 20, 100, 101, 180, 199, 240, 260, 301, 400}, longitude : {0},
     school_id : 1..3]

VerifyAttendanceLocation ==
    /\ ops < MaxVerifyLocationOps
    /\ \E authentic_locations \in LocationTables, current_user \in Callers,
          location_data \in GPSVerificationRequest :
         last' = Reply(verify_attendance_location(authentic_locations, current_user,
                                                  location_data))
    /\ ops' = ops + 1
    /\ UNCHANGED <<attendance_records, ledger, sessions>>

NextVerifyLocation == VerifyAttendanceLocation

SpecVerifyLocation == Init /\ [][NextVerifyLocation]_vars

\* the zones the request of the last reply was verified against, and the
\* distance of its candidate to the i-th of them
ZonesVerified == LocationsOf(last.req.authentic_locations, last.req.data.school_id)
DistanceTo(i) == Abs(ZonesVerified[i].latitude - last.req.data.latitude)
AdmittingZones == {i \in 1..Len(ZonesVerified) : DistanceTo(i) <= ZonesVerified[i].radius_meters}

\* C23: over the school's active zones, is_valid is true iff at least one
\* zone has distance <= radius_meters; when valid, the reported distance and
\* zone name are those of the admitting zone with the smallest distance (the
\* first such zone in input order on a tie), never those of a closer
\* non-admitting zone; when invalid, the reported distance is the minimum
\* distance to any zone and no zone name is returned.
GeofenceVerifierResult ==
    (last.op = "verify_attendance_location" /\ last.code = 200) =>
        LET body == last.body[1] IN
        /\ body.is_valid <=> AdmittingZones # {}
        /\ body.is_valid =>
              \E i \in AdmittingZones :
                 /\ body.distance = Some(DistanceTo(i))
                 /\ body.location_name = Some(ZonesVerified[i].name)
                 /\ \A j \in AdmittingZones :
                       /\ DistanceTo(i) <= DistanceTo(j)
                       /\ DistanceTo(j) = DistanceTo(i) => i <= j
        /\ ~body.is_valid =>
              /\ body.location_name = None
              /\ \E i \in 1..Len(ZonesVerified) :
                    /\ body.distance = Some(DistanceTo(i))
                    /\ \A j \in 1..Len(ZonesVerified) : DistanceTo(i) <= DistanceTo(j)

\* a candidate was verified as valid by a zone that admits it although a
\* zone that does not admit it lies nearer
C23Witness ==
    /\ last.op = "verify_attendance_location"
    /\ last.code = 200
    /\ last.body[1].is_valid
    /\ \E j \in 1..Len(ZonesVerified) :
          /\ j \notin AdmittingZones
          /\ Some(DistanceTo(j)) # last.body[1].distance
          /\ DistanceTo(j) < last.body[1].distance[1]

----------------------------------------------------------------------------
(* The life of a gateway payment *)

\* the references that a successful initialize of this server has produced
InitializedReferences == DOMAIN gateway \ DOMAIN ForeignTransactions

CurrencyRoundTrip ==
    [][(InitializeStep /\ last'.code = 200)
          => /\ gateway'[last'.req.reference].amount = last'.req.data.amount
             /\ Float(gateway'[last'.req.reference].amount).cents
                   = last'.req.data.amount]_vars

ReachesGatewayStep ==
    /\ InitializeStep
    /\ last'.req.reachable
    /\ last'.code = 200 \/ last'.detail = "Failed to initialize payment"

----------------------------------------------------------------------------
(* The fee ledger and the gateway endpoints served together, on a ledger   *)
(* that holds fees of two schools                                           *)

NextTenants ==
    \/ UpdateStudentFee
    \/ CreatePayment
    \/ InitializePaystackPayment
    \/ VerifyPaystackPayment
    \/ CustomerPays

SpecTenants == InitGateway /\ [][NextTenants]_vars

\* the school of the student a fee belongs to
SchoolOfFee(fees, fee_id) == Students[fees[fee_id].student_id].school_id

\* the step serves a request of the ledger or the gateway endpoints that a
\* caller other than a super_admin sent
RequestOfSchoolUserStep ==
    /\ ops' = ops + 1
    /\ last'.req.current_user.role # "super_admin"

----------------------------------------------------------------------------
(* The bulk submit as a whole *)

\* the step serves a bulk submit
BulkSubmitStep ==
    /\ ops' = ops + 1
    /\ last'.op = "create_bulk_attendance"

\* after the step every student listed in the batch has a record for the
\* batch date that carries the batch's status for that student
BatchRecorded(b) ==
    \A i \in 1..Len(b.records) :
       \E k \in 1..Len(attendance_records') :
          /\ attendance_records'[k].student_id = b.records[i].student_id
          /\ attendance_records'[k].date = b.date
          /\ attendance_records'[k].status = b.records[i].status

\* C29: bulk submit is all-or-nothing: the creates and updates of one batch
\* are committed together, so after the call either every listed student
\* has a record for the batch date carrying the batch's status for that
\* student, or no record was created or changed by the call.
BulkAllOrNothing ==
    [][BulkSubmitStep =>
          \/ /\ last'.code = 201
             /\ BatchRecorded(last'.req)
          \/ /\ last'.code # 201
             /\ last'.created = {}
             /\ last'.updated = {}
             /\ attendance_records' = attendance_records]_vars

\* a batch of two students was committed, one record created and one
\* existing record updated by it
C29Witness ==
    /\ last.op = "create_bulk_attendance"
    /\ last.code = 201
    /\ Len(last.req.records) = 2
    /\ Cardinality(last.created) = 1
    /\ Cardinality(last.updated) = 1
    /\ \A i \in 1..2 :
          \E k \in last.created \cup last.updated :
             /\ attendance_records[k].student_id = last.req.records[i].student_id
             /\ attendance_records[k].date = last.req.date
             /\ attendance_records[k].status = last.req.records[i].status

\* C30: bulk submit accepts every well-formed batch: whenever the class
\* exists and every student id listed in the batch exists and belongs to
\* the class's school, the call is not rejected for its entities (it
\* succeeds unless the caller is refused for role or school), also when the
\* same student id appears more than once in the list; a NotFound rejection
\* occurs only if the class or some listed student is really absent.
BulkAcceptsWellFormedBatch ==
    [][(BulkSubmitStep /\ ~BadBatch(last'.req)) =>
          /\ last'.code \in {201, 403}
          /\ last'.code = 201 => BatchRecorded(last'.req)]_vars

====
